---- MODULE Spec2Model ----
(***************************************************************************)
(* Model of main.py: the Streamlit script that resolves, for each of the   *)
(* three configured profiles, the latest stored location of a user         *)
(* (resolve_user_ref_by_email -> pick_device_ref -> latest sample) and     *)
(* renders the results; the Firebase app behind get_db outlives the        *)
(* script's reruns.                                                        *)
(*                                                                         *)
(* Strings are sequences of one-character strings; None and the empty      *)
(* string are both the empty sequence (the code only tests them for        *)
(* truthiness).  The Firestore collections are external: each query step   *)
(* draws the documents it observes from a bounded set.                     *)
(***************************************************************************)
EXTENDS Integers, Sequences, FiniteSets, TLC

\* ------------------------------------------------------------------ bounds
MaxUsers == 2
MaxDevices == 3
MaxInits == 2

\* main.py:168-187, the PROFILES list has three entries
NProfiles == 3

\* ------------------------------------------------------------------ values
None == <<>>

\* the four replacement tokens of email_to_safe_id
TokAt == <<"_", "a", "t", "_">>
TokDot == <<"_", "d", "o", "t", "_">>
TokPlus == <<"_", "p", "l", "u", "s", "_">>
TokDash == <<"_", "d", "a", "s", "h", "_">>

\* "a@b.com" and "x+y@z-w.in": the configured emails the profiles may carry
EmailA == <<"a", "@", "b", ".", "c", "o", "m">>
EmailB == <<"x", "+", "y", "@", "z", "-", "w", ".", "i", "n">>
ProfileEmails == {None, EmailA, EmailB}

\* user document keys present in the store: "a_at_b_dot_com",
\* "x_plus_y_at_z_dash_w_dot_in" (legacy id convention) and "u1" (opaque id)
KeyA == <<"a", "_", "a", "t", "_", "b", "_", "d", "o", "t", "_", "c", "o", "m">>
KeyB == <<"x", "_", "p", "l", "u", "s", "_", "y", "_", "a", "t", "_", "z",
          "_", "d", "a", "s", "h", "_", "w", "_", "d", "o", "t", "_", "i", "n">>
KeyU == <<"u", "1">>
UserKeys == {KeyA, KeyB, KeyU}

\* a document field: absent, or present with a raw value
Absent == [tag |-> "absent", n |-> 0]
BadStr == [tag |-> "badstr", n |-> 0]
NanStr == [tag |-> "nanstr", n |-> 0]
InfStr == [tag |-> "infstr", n |-> 0]
Num(n) == [tag |-> "num", n |-> n]
NumStr(n) == [tag |-> "numstr", n |-> n]

\* the `email` field of a user document
NoEmail == [present |-> FALSE, v |-> None]
HasEmail(e) == [present |-> TRUE, v |-> e]
EmailFields == {NoEmail, HasEmail(EmailA), HasEmail(EmailB)}

\* user documents and the `users` collection in query order (keys are unique)
UserDocs == [id : UserKeys, email : EmailFields]

UserStores ==
  UNION {{us \in [1..n -> UserDocs] :
            \A j, k \in 1..n : j # k => us[j].id # us[k].id} : n \in 0..MaxUsers}

\* device documents: ids d1, d2, ... in enumeration order
DeviceId(k) == <<"d", ToString(k)>>
LastUpdatedVals == {Absent, BadStr, Num(100), Num(200), Num(500)}

DeviceLists ==
  UNION {{[k \in 1..n |-> [id |-> DeviceId(k), lastUpdated |-> lu[k]]] :
            lu \in [1..n -> LastUpdatedVals]} : n \in 0..MaxDevices}

\* the configured force_device strings after .strip() ("" when the secret is
\* missing; `or None` of lines 173-185 maps "" to None, here the same value)
ForceDevices == {None, DeviceId(1), DeviceId(2), <<"d", "X">>}

\* location samples of one device: at most one per timestamp; timestamps are
\* integers, so int(d.get("timestamp", 0)) of line 126 returns the field
TimestampVals == {42, 1700}
RawCoords == {Num(1), NumStr(2), BadStr, NanStr, InfStr, Absent}
NoSample == [latitude |-> Absent, longitude |-> Absent, stored |-> FALSE]
SampleFields ==
  {NoSample} \cup [latitude : RawCoords, longitude : RawCoords, stored : {TRUE}]

LocationStores ==
  {{[timestamp |-> t, latitude |-> f[t].latitude, longitude |-> f[t].longitude] :
      t \in {u \in TimestampVals : f[u].stored}} : f \in [TimestampVals -> SampleFields]}

\* ------------------------------------------------------- python conversions
\* float(x): a number or a numeric string converts; "nan" and "inf" convert
\* to the non-finite floats; any other string raises ValueError; a missing
\* key raises KeyError before float is called
NoFloat == [kind |-> "none", v |-> 0]

float(x) ==
  CASE x.tag = "num" -> [ok |-> TRUE, val |-> [kind |-> "finite", v |-> x.n]]
    [] x.tag = "numstr" -> [ok |-> TRUE, val |-> [kind |-> "finite", v |-> x.n]]
    [] x.tag = "nanstr" -> [ok |-> TRUE, val |-> [kind |-> "nan", v |-> 0]]
    [] x.tag = "infstr" -> [ok |-> TRUE, val |-> [kind |-> "inf", v |-> 0]]
    [] OTHER -> [ok |-> FALSE, val |-> NoFloat]

\* int(d.get("lastUpdated", 0)): the default 0 only replaces an absent field
int(x) ==
  CASE x.tag = "absent" -> [ok |-> TRUE, val |-> 0]
    [] x.tag = "num" -> [ok |-> TRUE, val |-> x.n]
    [] x.tag = "numstr" -> [ok |-> TRUE, val |-> x.n]
    [] OTHER -> [ok |-> FALSE, val |-> 0]

\* ------------------------------------------------------- email_to_safe_id
RECURSIVE replace(_, _, _)
replace(s, old, new) ==
  IF s = <<>> THEN <<>>
  ELSE (IF Head(s) = old THEN new ELSE <<Head(s)>>) \o replace(Tail(s), old, new)

\* variant: the "-" replacement is missing
email_to_safe_id_no_dash(email) ==
  replace(replace(replace(email, "@", TokAt), ".", TokDot), "+", TokPlus)

email_to_safe_id(email) ==
  replace(replace(replace(replace(email, "@", TokAt), ".", TokDot), "+", TokPlus),
          "-", TokDash)

\* ----------------------------------------------- resolve_user_ref_by_email
\* db.collection("users").where("email", "==", email): the matching documents
\* in query order
where_email(us, email) ==
  SelectSeq(us, LAMBDA d : d.email.present /\ d.email.v = email)

\* db.collection("users").document(key).get().exists
exists(us, key) == \E k \in 1..Len(us) : us[k].id = key

\* variant: the derived-id lookup is tried before the field query
resolve_fallback_first(email, us, failing) ==
  LET guess == email_to_safe_id(email)
      q == where_email(us, email)
  IN IF exists(us, guess)
     THEN [ref |-> guess, queries |-> {"users.get"}, error |-> "none"]
     ELSE [ref |-> IF q # <<>> THEN q[1].id ELSE None,
           queries |-> {"users.get", "users.where"}, error |-> "none"]

\* `failing` names the store query that raises in this call ("none": no query
\* fails); `queries` are the store queries the call issued
resolve_user_ref_by_email(email, us, failing) ==
  IF failing = "users.where"
  THEN [ref |-> None, queries |-> {"users.where"}, error |-> "StoreError"]
  ELSE LET q == where_email(us, email) IN
       IF q # <<>>
       THEN [ref |-> q[1].id, queries |-> {"users.where"}, error |-> "none"]
       ELSE LET guess == email_to_safe_id(email) IN
            IF failing = "users.get"
            THEN [ref |-> None, queries |-> {"users.where", "users.get"},
                  error |-> "StoreError"]
            ELSE [ref |-> IF exists(us, guess) THEN guess ELSE None,
                  queries |-> {"users.where", "users.get"}, error |-> "none"]

\* ---------------------------------------------------------- pick_device_ref
\* the sort key of line 99 (int raises on a value it cannot convert)
sort_key(d) == int(d.lastUpdated)

\* list.sort(key=..., reverse=True) is stable: equal keys keep their order
RECURSIVE insert_desc(_, _)
insert_desc(s, d) ==
  IF s = <<>> THEN <<d>>
  ELSE IF sort_key(Head(s)).val >= sort_key(d).val
       THEN <<Head(s)>> \o insert_desc(Tail(s), d)
       ELSE <<d>> \o s

RECURSIVE sort_desc(_, _)
sort_desc(acc, rest) ==
  IF rest = <<>> THEN acc ELSE sort_desc(insert_desc(acc, Head(rest)), Tail(rest))

\* variant: the forced id is ignored, recency always decides
pick_most_recent_only(devs, forced_id) ==
  IF devs = <<>>
  THEN [ref |-> None, error |-> "none"]
  ELSE IF \E k \in 1..Len(devs) : ~sort_key(devs[k]).ok
  THEN [ref |-> None, error |-> "ValueError"]
  ELSE [ref |-> sort_desc(<<>>, devs)[1].id, error |-> "none"]

\* variant: a forced id is turned into a reference without looking at the devices
pick_forced_unchecked(devs, forced_id) ==
  IF forced_id # None
  THEN [ref |-> forced_id, error |-> "none"]
  ELSE IF devs = <<>>
  THEN [ref |-> None, error |-> "none"]
  ELSE IF \E k \in 1..Len(devs) : ~sort_key(devs[k]).ok
  THEN [ref |-> None, error |-> "ValueError"]
  ELSE [ref |-> sort_desc(<<>>, devs)[1].id, error |-> "none"]

pick_device_ref(devs, forced_id) ==
  IF devs = <<>>
  THEN [ref |-> None, error |-> "none"]
  ELSE IF forced_id # None /\ \E k \in 1..Len(devs) : devs[k].id = forced_id
  THEN [ref |-> forced_id, error |-> "none"]
  ELSE IF \E k \in 1..Len(devs) : ~sort_key(devs[k]).ok
  THEN [ref |-> None, error |-> "ValueError"]
  ELSE [ref |-> sort_desc(<<>>, devs)[1].id, error |-> "none"]

\* --------------------------------------------------- fetch_latest_location
NoInfo ==
  [found |-> FALSE, lat |-> NoFloat, lng |-> NoFloat, timestamp_ms |-> 0,
   device_id |-> None, user_doc |-> None]

\* loc_ref.order_by("timestamp", DESCENDING).limit(1).stream()
latest_sample(ls) ==
  IF ls = {} THEN <<>>
  ELSE <<CHOOSE s \in ls : \A t \in ls : t.timestamp <= s.timestamp>>

\* lines 114-129: the result built from the query's answer
to_location(latest, dev, usr) ==
  IF latest = <<>> THEN NoInfo
  ELSE LET d == latest[1]
           lat == float(d.latitude)
           lng == float(d.longitude)
       IN IF ~lat.ok \/ ~lng.ok THEN NoInfo
          ELSE [found |-> TRUE, lat |-> lat.val, lng |-> lng.val,
                timestamp_ms |-> d.timestamp, device_id |-> dev, user_doc |-> usr]

\* variant: the newest sample whose coordinates convert is used
fetch_location_fallback(ls, dev, usr) ==
  LET good == {s \in ls : float(s.latitude).ok /\ float(s.longitude).ok}
  IN to_location(latest_sample(good), dev, usr)

\* lines 111-129: query the latest sample of the device, convert it
fetch_location(ls, dev, usr) == to_location(latest_sample(ls), dev, usr)

\* ------------------------------------------------------------------ get_db
\* variant: no get_app guard and no cache, every call initializes
get_db_unguarded(isCached, hasApp, inits, ok) ==
  IF ok
  THEN [cached |-> TRUE, appExists |-> TRUE,
        initCount |-> IF inits < MaxInits THEN inits + 1 ELSE inits, to |-> "db_init"]
  ELSE [cached |-> FALSE, appExists |-> hasApp, initCount |-> inits, to |-> "crashed"]

\* one call of the cached get_db: `ok` is whether credentials.Certificate and
\* initialize_app succeed when they are reached
get_db(isCached, hasApp, inits, ok) ==
  IF isCached
  THEN [cached |-> TRUE, appExists |-> hasApp, initCount |-> inits, to |-> "db_cached"]
  ELSE IF hasApp
  THEN [cached |-> TRUE, appExists |-> TRUE, initCount |-> inits, to |-> "db_app"]
  ELSE IF ok
  THEN [cached |-> TRUE, appExists |-> TRUE,
        initCount |-> IF inits < MaxInits THEN inits + 1 ELSE inits, to |-> "db_init"]
  ELSE [cached |-> FALSE, appExists |-> FALSE, initCount |-> inits, to |-> "crashed"]

\* ------------------------------------------------------------------- state
VARIABLES
  pc,            \* position of the script run
  cached,        \* st.cache_resource holds get_db's result
  appExists,     \* the process has a default Firebase app
  initCount,     \* successful firebase_admin.initialize_app calls so far
  storeFaults,   \* whether store queries may raise in this process
  i,             \* index of the profile the loop is at
  email,         \* p["email"] of the current profile
  force_device,  \* p["force_device"] of the current profile
  users,         \* the users collection as the current call's queries see it
  user_ref,      \* resolve_user_ref_by_email's result (the document key)
  devices,       \* list(devices_ref.stream()) of the current call
  device_ref,    \* pick_device_ref's result (the device id)
  locs,          \* the selected device's locations collection
  info,          \* fetch_latest_location's result
  results,       \* the profiles (by index) whose info was appended
  queries,       \* store queries issued by the current fetch_latest_location
  error          \* the exception that aborted the run, "none" otherwise

vars ==
  <<pc, cached, appExists, initCount, storeFaults, i, email, force_device, users,
    user_ref, devices, device_ref, locs, info, results, queries, error>>

process == <<cached, appExists, initCount, storeFaults>>
call == <<email, force_device, users, user_ref, devices, device_ref, locs, info, queries>>

Fresh ==
  /\ i = 1
  /\ email = None
  /\ force_device = None
  /\ users = <<>>
  /\ user_ref = None
  /\ devices = <<>>
  /\ device_ref = None
  /\ locs = {}
  /\ info = NoInfo
  /\ results = <<>>
  /\ queries = {}
  /\ error = "none"

Init ==
  /\ pc = "start"
  /\ cached = FALSE
  /\ appExists = FALSE
  /\ initCount = 0
  /\ storeFaults = FALSE
  /\ Fresh

InitFault ==
  /\ pc = "start"
  /\ cached = FALSE
  /\ appExists = FALSE
  /\ initCount = 0
  /\ storeFaults = TRUE
  /\ Fresh

\* the queries that may raise at a step
Failing(names) == IF storeFaults THEN {"none"} \cup names ELSE {"none"}

\* line 56: db = get_db()
GetDb ==
  /\ pc = "start"
  /\ \E ok \in BOOLEAN :
       LET r == get_db(cached, appExists, initCount, ok) IN
       /\ cached' = r.cached
       /\ appExists' = r.appExists
       /\ initCount' = r.initCount
       /\ pc' = r.to
       /\ error' = IF r.to = "crashed" THEN "InitError" ELSE "none"
  /\ UNCHANGED <<storeFaults, i, results, call>>

\* lines 57-198: the module-level setup up to the profile loop
StartLoop ==
  /\ pc \in {"db_init", "db_cached", "db_app"}
  /\ pc' = "loop"
  /\ i' = 1
  /\ results' = <<>>
  /\ UNCHANGED <<process, call, error>>

\* lines 200-201: a profile without an email is skipped
SkipProfile ==
  /\ pc = "loop"
  /\ i <= NProfiles
  /\ i' = i + 1
  /\ UNCHANGED <<pc, process, call, results, error>>

\* lines 202, 74-85: fetch_latest_location is entered and resolves the user
Resolve ==
  /\ pc = "loop"
  /\ i <= NProfiles
  /\ \E e \in ProfileEmails \ {None}, f \in ForceDevices, us \in UserStores,
        failing \in Failing({"users.where", "users.get"}) :
       LET r == resolve_user_ref_by_email(e, us, failing) IN
       /\ email' = e
       /\ force_device' = f
       /\ users' = us
       /\ user_ref' = r.ref
       /\ queries' = r.queries
       /\ error' = r.error
       /\ pc' = IF r.error = "none" THEN "resolved" ELSE "crashed"
  /\ UNCHANGED <<process, i, devices, device_ref, locs, info, results>>

\* lines 103-105: resolve_user_ref_by_email has returned; no user, no result
CheckUser ==
  /\ pc = "resolved"
  /\ users' = <<>>
  /\ pc' = IF user_ref = None THEN "fetched" ELSE "have_user"
  /\ UNCHANGED <<process, i, email, force_device, user_ref, devices, device_ref,
                 locs, info, results, queries, error>>

\* lines 107, 87-100: pick_device_ref runs on the user's devices
Pick ==
  /\ pc = "have_user"
  /\ \E devs \in DeviceLists, failing \in Failing({"devices.stream"}) :
       LET r == pick_device_ref(devs, force_device) IN
       /\ queries' = queries \cup {"devices.stream"}
       /\ IF failing = "devices.stream"
          THEN /\ error' = "StoreError"
               /\ pc' = "crashed"
               /\ UNCHANGED <<devices, device_ref>>
          ELSE /\ devices' = devs
               /\ device_ref' = r.ref
               /\ error' = r.error
               /\ pc' = IF r.error = "none" THEN "picked" ELSE "crashed"
  /\ UNCHANGED <<process, i, email, force_device, users, user_ref, locs, info, results>>

\* lines 107-109: pick_device_ref has returned; no device, no result
CheckDevice ==
  /\ pc = "picked"
  /\ devices' = <<>>
  /\ pc' = IF device_ref = None THEN "fetched" ELSE "have_device"
  /\ UNCHANGED <<process, i, email, force_device, users, user_ref, device_ref,
                 locs, info, results, queries, error>>

\* lines 111-129: the latest sample is queried and converted
Latest ==
  /\ pc = "have_device"
  /\ \E ls \in LocationStores, failing \in Failing({"locations.latest"}) :
       /\ queries' = queries \cup {"locations.latest"}
       /\ IF failing = "locations.latest"
          THEN /\ error' = "StoreError"
               /\ pc' = "crashed"
               /\ UNCHANGED <<locs, info>>
          ELSE /\ locs' = ls
               /\ info' = fetch_location(ls, device_ref, user_ref)
               /\ pc' = "fetched"
               /\ UNCHANGED error
  /\ UNCHANGED <<process, i, email, force_device, users, user_ref, devices,
                 device_ref, results>>

\* lines 203-206: a found location is appended; the loop moves on
Collect ==
  /\ pc = "fetched"
  /\ results' = IF info.found THEN Append(results, i) ELSE results
  /\ i' = i + 1
  /\ pc' = "loop"
  /\ email' = None
  /\ force_device' = None
  /\ users' = <<>>
  /\ user_ref' = None
  /\ devices' = <<>>
  /\ device_ref' = None
  /\ locs' = {}
  /\ info' = NoInfo
  /\ queries' = {}
  /\ UNCHANGED <<process, error>>

\* lines 208-257: st.stop() on no result, the map otherwise
EndLoop ==
  /\ pc = "loop"
  /\ i > NProfiles
  /\ pc' = IF results = <<>> THEN "stopped" ELSE "rendered"
  /\ UNCHANGED <<process, i, call, results, error>>

Ended == pc \in {"stopped", "rendered", "crashed"}

\* lines 19-26: the page reruns the script in the same process
Rerun ==
  /\ Ended
  /\ pc' = "start"
  /\ i' = 1
  /\ email' = None
  /\ force_device' = None
  /\ users' = <<>>
  /\ user_ref' = None
  /\ devices' = <<>>
  /\ device_ref' = None
  /\ locs' = {}
  /\ info' = NoInfo
  /\ results' = <<>>
  /\ queries' = {}
  /\ error' = "none"
  /\ UNCHANGED process

\* line 47: the host may clear st.cache_resource between runs
ClearCache ==
  /\ Ended
  /\ cached
  /\ cached' = FALSE
  /\ UNCHANGED <<pc, appExists, initCount, storeFaults, i, call, results, error>>

Next ==
  \/ GetDb
  \/ StartLoop
  \/ SkipProfile
  \/ Resolve
  \/ CheckUser
  \/ Pick
  \/ CheckDevice
  \/ Latest
  \/ Collect
  \/ EndLoop
  \/ Rerun
  \/ ClearCache

Spec == Init /\ [][Next]_vars

SpecFault == InitFault /\ [][Next]_vars

\* ------------------------------------------------------------------ claims
\* what the claims speak of, stated on the store contents
FieldMatches == {k \in 1..Len(users) : users[k].email = HasEmail(email)}
Keys == {users[k].id : k \in 1..Len(users)}
DeviceIds == {devices[k].id : k \in 1..Len(devices)}
ForcedExists == force_device # None /\ force_device \in DeviceIds
NewestSamples == {s \in locs : \A t \in locs : t.timestamp <= s.timestamp}
IsNumber(x) == x.tag \in {"num", "numstr"}
FailsCoercion(x) == x.tag \in {"badstr", "absent"}
\* the data model's value of lastUpdated: 0 when absent or malformed
LastUpdatedValue(d) == IF IsNumber(d.lastUpdated) THEN d.lastUpdated.n ELSE 0
MostRecent ==
  {k \in 1..Len(devices) :
     \A j \in 1..Len(devices) : LastUpdatedValue(devices[j]) <= LastUpdatedValue(devices[k])}
\* pick_device_ref was called and reached the recency rule
RecencyCase ==
  /\ pc = "picked" \/ (pc = "crashed" /\ error = "ValueError")
  /\ devices # <<>>
  /\ ~ForcedExists

\* C1: when some user document's email field equals the input, resolve returns
\* a document matched by the field query and the derived-id lookup is not made
C1_FieldMatchFirst ==
  (pc = "resolved" /\ FieldMatches # {}) =>
     /\ \E k \in FieldMatches : user_ref = users[k].id
     /\ "users.get" \notin queries

\* C1 witness: a field match and a different document keyed by the derived id
C1_Witness ==
  /\ pc = "resolved"
  /\ email = EmailA
  /\ KeyA \in Keys
  /\ \E k \in FieldMatches : users[k].id = KeyU /\ user_ref = KeyU

\* C2: without a field match, resolve returns the document keyed by the derived
\* id ("a@b.com" -> "a_at_b_dot_com") when it exists, None otherwise
C2_FallbackByDerivedId ==
  (pc = "resolved" /\ FieldMatches = {}) =>
     /\ email = EmailA => user_ref = (IF KeyA \in Keys THEN KeyA ELSE None)
     /\ email = EmailB => user_ref = (IF KeyB \in Keys THEN KeyB ELSE None)
     /\ "users.get" \in queries

\* C2 witness: "x+y@z-w.in" resolved through its derived key
C2_Witness ==
  /\ pc = "resolved"
  /\ email = EmailB
  /\ FieldMatches = {}
  /\ user_ref = KeyB

\* C3: a store query that fails never aborts the run
C3_StoreFailureIsNotFound == ~(pc = "crashed" /\ error = "StoreError")

\* C4: a forced device id that exists under the user is the selected device,
\* whatever the devices' lastUpdated values, and a returned location is that
\* device's latest sample
C4_ForcedDeviceWins ==
  /\ (pc = "picked" /\ ForcedExists) => device_ref = force_device
  /\ (pc = "fetched" /\ device_ref # None /\ device_ref = force_device) =>
       /\ info.found =>
            /\ info.device_id = force_device
            /\ \E s \in NewestSamples : info.timestamp_ms = s.timestamp
       /\ (\E s \in NewestSamples : IsNumber(s.latitude) /\ IsNumber(s.longitude)) =>
            /\ info.found
            /\ \E s \in NewestSamples :
                 /\ info.lat = [kind |-> "finite", v |-> s.latitude.n]
                 /\ info.lng = [kind |-> "finite", v |-> s.longitude.n]

\* C4 witness: d1 is forced and selected although d2 was updated later
C4_Witness ==
  /\ pc = "picked"
  /\ force_device = DeviceId(1)
  /\ Len(devices) >= 2
  /\ devices[1].lastUpdated = Num(100)
  /\ devices[2].lastUpdated = Num(500)
  /\ device_ref = DeviceId(1)

\* C5: without a matching forced id, a user with devices gets the first device
\* in enumeration order among those with the largest lastUpdated
C5_PicksMostRecent ==
  RecencyCase =>
     /\ pc = "picked"
     /\ \E k \in MostRecent :
          /\ device_ref = devices[k].id
          /\ \A j \in MostRecent : k <= j

\* C6: when the newest sample's latitude or longitude fails coercion the result
\* is None, and no result is ever taken from an older sample
C6_NoFallbackToOlderSample ==
  (pc = "fetched" /\ device_ref # None) =>
     /\ (\E s \in NewestSamples : FailsCoercion(s.latitude) \/ FailsCoercion(s.longitude))
          => info = NoInfo
     /\ info.found => \E s \in NewestSamples : info.timestamp_ms = s.timestamp

\* C6 witness: the newest sample is malformed, an older one is well formed
C6_Witness ==
  /\ pc = "fetched"
  /\ device_ref # None
  /\ \E s \in NewestSamples : s.latitude = BadStr
  /\ \E t \in locs : t \notin NewestSamples /\ IsNumber(t.latitude) /\ IsNumber(t.longitude)
  /\ info = NoInfo

\* C7: a returned location has finite lat and lng
C7_FiniteCoordinates ==
  (pc = "fetched" /\ info.found) =>
     info.lat.kind = "finite" /\ info.lng.kind = "finite"

\* C8: a malformed lastUpdated counts as 0 and pick_device_ref still returns
\* a device
C8_MalformedIsZero ==
  (RecencyCase /\ \E k \in 1..Len(devices) : devices[k].lastUpdated = BadStr) =>
     /\ error = "none"
     /\ device_ref \in DeviceIds

\* C9: a user without devices yields None, forced id or not, without an error
\* and without a location query
C9_NoDevicesNoResult ==
  /\ (pc \in {"picked", "crashed"} /\ "devices.stream" \in queries /\ devices = <<>>
        /\ error # "StoreError") =>
       pc = "picked" /\ device_ref = None
  /\ pc = "have_device" => device_ref # None
  /\ (pc = "fetched" /\ device_ref = None) =>
       info = NoInfo /\ "locations.latest" \notin queries /\ error = "none"

\* C9 witness: a resolved user, a forced id, no devices, no result
C9_Witness ==
  /\ pc = "fetched"
  /\ user_ref # None
  /\ "devices.stream" \in queries
  /\ force_device = DeviceId(1)
  /\ device_ref = None
  /\ info = NoInfo

\* C10: initialize_app succeeds at most once in a process, however often the
\* script reruns
C10_InitAtMostOnce ==
  /\ initCount <= 1
  /\ appExists <=> initCount = 1
  /\ pc \in {"db_cached", "db_app"} => appExists

\* C10 witness: get_db ran again after the cache was cleared and reused the app
C10_Witness == pc = "db_app" /\ initCount = 1
====
